---- MODULE Spec2Model ----
(***************************************************************************)
(* Batch export orchestrator of the plugin (src/main.ts).                  *)
(*                                                                         *)
(* The plugin runs on a single-threaded event loop: a handler runs without *)
(* interruption until it reaches an await, so one action of this model is  *)
(* one such uninterrupted run (the command callback up to the first await  *)
(* of executeJobs, or the continuation after an awaited promise settles).  *)
(* Filesystem work started with fs.promises runs outside the event loop:   *)
(* writeFile opens the file with truncation and then writes at offset 0,   *)
(* appendFile writes at the end of the file.                               *)
(***************************************************************************)
EXTENDS Integers, Sequences, FiniteSets

\* ------------------------------------------------------------------ bounds
MaxDocs == 2        \* most markdown files in the vault
MaxBatches == 2     \* most command invocations (checking = false) in a run
MaxPending == 1     \* most gate evaluations whose preamble write is in flight

\* ------------------------------------------------------- program constants
HeaderLen == 148    \* bytes of mapHeader
FooterLen == 15     \* bytes of footer

\* Vault-relative paths of the markdown files a vault may hold.
AllDocs == {"notes/a.md", "other/a.md", "b.md"}

\* No document: what the active view shows before any openFile completed.
NoDoc == ""

\* Bytes of the fragment renderDiv produces for document d (the renderer is
\* external; the sizes straddle HeaderLen so both overwrite cases occur).
FragLen(d) ==
    CASE d = "notes/a.md" -> 100
      [] d = "other/a.md" -> 200
      [] OTHER -> 300

\* As BaseName, with the name taken from the folder for a file in other/.
BaseNameOfFolder(d) ==
    CASE d = "notes/a.md" -> "a.html"
      [] OTHER -> "b.html"

\* path.basename(replaceFileExtension(inputFile, 'html'))
BaseName(d) ==
    CASE d = "notes/a.md" -> "a.html"
      [] d = "other/a.md" -> "a.html"
      [] OTHER -> "b.html"

OutputNames == {BaseName(d) : d \in AllDocs}

\* The listings getMarkdownFiles() may return: no file twice, at most MaxDocs.
Listings ==
    UNION {{s \in [1..n -> AllDocs] : \A i, j \in 1..n : s[i] = s[j] => i = j}
           : n \in 0..MaxDocs}

\* Bytes of content found in the destination before the plugin ran.
PriorLen == 40

\* ------------------------------------------------------------- file content
\* A file is a sequence of chunks; a chunk is bytes lo..hi-1 of a text.
Chunk(tok, doc, len) == [tok |-> tok, doc |-> doc, lo |-> 0, hi |-> len]

mapHeader == Chunk("header", NoDoc, HeaderLen)
footer == Chunk("footer", NoDoc, FooterLen)
Fragment(d) == Chunk("div", d, FragLen(d))
Prior == Chunk("prior", NoDoc, PriorLen)

RECURSIVE DropBytes(_, _)
DropBytes(content, n) ==
    IF content = <<>> \/ n = 0 THEN content
    ELSE LET h == Head(content)
             l == h.hi - h.lo
         IN IF l <= n THEN DropBytes(Tail(content), n - l)
            ELSE <<[h EXCEPT !.lo = h.lo + n]>> \o Tail(content)

\* open(path, 'w'): the file is truncated when it is opened.
OpenTruncate(content) == <<>>

\* write of data at file offset 0 through a descriptor opened with 'w'.
WriteAtStart(content, data) == <<data>> \o DropBytes(content, data.hi - data.lo)

\* fs.promises.appendFile: the data lands at the end of the file.
AppendFile(content, data) == Append(content, data)

\* ------------------------------------------------------------------- state
VARIABLES
    activeLeaf,     \* app.workspace.activeLeaf is set
    files,          \* app.vault.getMarkdownFiles(), in enumeration order
    activeDoc,      \* the document the active view displays
    batches,        \* one record per executeJobs() started, in start order
    mapFile,        \* content of the map destination file
    htmlFiles,      \* content of each html output file, by document base name
    wOpen,          \* preamble writeFile calls not yet opened
    wWrite,         \* preamble writeFile calls opened (truncated), not yet written
    lastResult,     \* value the last checkCallback returned
    htmlDir,        \* the directory of the html output files exists
    settings,       \* this.settings: pandoc, pdflatex, outputFolder
    installed,      \* what lookpath finds on the PATH for each tool
    features,       \* this.features
    cbm,            \* where createBinaryMap is
    adapterFs,      \* app.vault.adapter is a FileSystemAdapter
    exportable,     \* the last currentFileCanBeExported call and its value
    platform,       \* the platform whose path module is in use
    outputs         \* the output paths computed so far

\* The state of the batch orchestrator, and the rest of the plugin's state.
batchVars == <<activeLeaf, files, activeDoc, batches, mapFile, htmlFiles, wOpen, wWrite, lastResult>>
auxVars == <<htmlDir, settings, installed, features, cbm, adapterFs, exportable, platform, outputs>>

vars == <<batchVars, auxVars>>

\* undefined / null of the source.
Undefined == "<undefined>"

\* `!v` of the source for a string or undefined.
Falsy(v) == v \in {Undefined, ""}

\* features pre-filled with the tools' names instead of {}.
AssumedFeatures == [pandoc |-> "pandoc", pdflatex |-> "pdflatex"]

\* features: { [key: string]: string | undefined } = {}
NoFeatures == [pandoc |-> Undefined, pdflatex |-> Undefined]

\* DEFAULT_SETTINGS with nothing configured.
NoSettings == [pandoc |-> Undefined, pdflatex |-> Undefined, outputFolder |-> ""]

\* The plugin outside the batch orchestrator, before onload has run and with
\* nothing configured; the export-all commands read none of it but htmlDir.
AuxIdle ==
    /\ settings = NoSettings
    /\ installed = NoFeatures
    /\ features = NoFeatures
    /\ cbm = "constructed"
    /\ adapterFs = TRUE
    /\ exportable = <<>>
    /\ platform = "posix"
    /\ outputs = {}

\* --------------------------------------------------------------- notices
\* new Notice(...): the job's document, the kind of message, and for a
\* failure the description of the error caught (e.toString()).
Notice(kind, d, text) == [kind |-> kind, doc |-> d, text |-> text]

\* ------------------------------------------------------------- executeJobs
\* A batch: the jobs built from the listing, the index of the job the for
\* loop is at, the await it is suspended on, the html the renderer returned
\* for the pending write, and the notices its jobs have shown so far.
NewBatchReversed(kind, listing) ==
    [kind |-> kind,
     jobs |-> [j \in 1..Len(listing) |-> listing[Len(listing) + 1 - j]],
     i |-> 1, pc |-> "loop", html |-> NoDoc, notices |-> <<>>]

NewBatch(kind, listing) ==
    [kind |-> kind, jobs |-> listing, i |-> 1, pc |-> "loop",
     html |-> NoDoc, notices |-> <<>>]

\* The for loop of executeJobs arriving at job b.i: the job runs up to its
\* first await (start notice, openFile called); past the last job the html
\* batch ends and the map batch calls appendFile(outputFile, footer).
StartJob(b) ==
    IF b.i <= Len(b.jobs)
    THEN [b EXCEPT !.pc = "openFile",
                   !.notices = Append(@, Notice("start", b.jobs[b.i], ""))]
    ELSE IF b.kind = "map"
         THEN [b EXCEPT !.pc = "appendFooter"]
         ELSE [b EXCEPT !.pc = "done"]

\* The job's promise resolved: `await job()` returns and the loop goes on.
NextJob(b) == StartJob([b EXCEPT !.i = @ + 1, !.html = NoDoc])

\* A rejection outside the try block: it leaves the job, then executeJobs,
\* whose promise nobody observes.
Reject(b) == [b EXCEPT !.pc = "rejected"]

\* As CatchError, with the error thrown again after the notice.
CatchErrorRethrow(b, e) ==
    Reject([b EXCEPT !.notices = Append(@, Notice("failure", b.jobs[b.i], e))])

\* The catch block of startHtmlExport / startMapExport: a failure notice
\* with the error's description; the job's promise then resolves.
CatchError(b, e) ==
    NextJob([b EXCEPT !.notices = Append(@, Notice("failure", b.jobs[b.i], e))])

\* As JobSucceeded, with the loop not waiting for the job: the next job
\* starts before this job reports its write.
JobSucceededNotAwaited(b) ==
    LET c == NextJob(b)
    IN [c EXCEPT !.notices = Append(@, Notice("success", b.jobs[b.i], ""))]

\* The end of the try block: the success notice; the job's promise resolves.
JobSucceeded(b) ==
    NextJob([b EXCEPT !.notices = Append(@, Notice("success", b.jobs[b.i], ""))])

Init ==
    /\ activeLeaf \in BOOLEAN
    /\ files \in Listings
    /\ activeDoc = NoDoc
    /\ batches = <<>>
    /\ mapFile = <<Prior>>
    /\ htmlFiles = [n \in OutputNames |-> NoDoc]
    /\ wOpen = 0
    /\ wWrite = 0
    /\ lastResult = "none"
    /\ htmlDir = TRUE
    /\ AuxIdle

\* ------------------------------------------------------------ the commands
\* checkCallback(true) of html-exportall.
HtmlGate ==
    /\ lastResult' = IF activeLeaf THEN "true" ELSE "false"
    /\ UNCHANGED <<activeLeaf, files, activeDoc, batches, mapFile, htmlFiles, wOpen, wWrite, auxVars>>

\* checkCallback(false) of html-exportall.
HtmlExportAll ==
    /\ Len(batches) < MaxBatches
    /\ IF ~activeLeaf
       THEN /\ lastResult' = "false"
            /\ UNCHANGED batches
       ELSE /\ batches' = Append(batches, StartJob(NewBatch("html", files)))
            /\ lastResult' = "true"
    /\ UNCHANGED <<activeLeaf, files, activeDoc, mapFile, htmlFiles, wOpen, wWrite, auxVars>>

\* checkCallback(true) of map-exportall: the preamble writeFile is called
\* before `checking` is read.
MapGate ==
    /\ wOpen + wWrite < MaxPending
    /\ IF ~activeLeaf
       THEN /\ lastResult' = "false"
            /\ UNCHANGED wOpen
       ELSE /\ wOpen' = wOpen + 1
            /\ lastResult' = "true"
    /\ UNCHANGED <<activeLeaf, files, activeDoc, batches, mapFile, htmlFiles, wWrite, auxVars>>

\* checkCallback(false) of map-exportall.
MapExportAll ==
    /\ Len(batches) < MaxBatches
    /\ IF ~activeLeaf
       THEN /\ lastResult' = "false"
            /\ UNCHANGED <<batches, wOpen>>
       ELSE /\ wOpen' = wOpen + 1
            /\ batches' = Append(batches, StartJob(NewBatch("map", files)))
            /\ lastResult' = "true"
    /\ UNCHANGED <<activeLeaf, files, activeDoc, mapFile, htmlFiles, wWrite, auxVars>>

\* ------------------------------------------- the unawaited preamble write
PreambleOpen ==
    /\ wOpen > 0
    /\ mapFile' = OpenTruncate(mapFile)
    /\ wOpen' = wOpen - 1
    /\ wWrite' = wWrite + 1
    /\ UNCHANGED <<activeLeaf, files, activeDoc, batches, htmlFiles, lastResult, auxVars>>

PreambleWrite ==
    /\ wWrite > 0
    /\ mapFile' = WriteAtStart(mapFile, mapHeader)
    /\ wWrite' = wWrite - 1
    /\ UNCHANGED <<activeLeaf, files, activeDoc, batches, htmlFiles, wOpen, lastResult, auxVars>>

\* ------------------------------------------------------- the steps of a job
\* openFile resolved: the view shows the job's document; the view is taken
\* and render / renderDiv is called on it.
OpenFileDone(k) ==
    /\ batches[k].pc = "openFile"
    /\ activeDoc' = batches[k].jobs[batches[k].i]
    /\ batches' = [batches EXCEPT ![k].pc = "render"]
    /\ UNCHANGED <<activeLeaf, files, mapFile, htmlFiles, wOpen, wWrite, lastResult, auxVars>>

\* openFile rejected: line 169 / 198 is outside the try block.
OpenFileFail(k) ==
    /\ batches[k].pc = "openFile"
    /\ batches' = [batches EXCEPT ![k] = Reject(@)]
    /\ UNCHANGED <<activeLeaf, files, activeDoc, mapFile, htmlFiles, wOpen, wWrite, lastResult, auxVars>>

\* The renderer returned the html of what the view displays; writeFile
\* (html batch) or appendFile (map batch) is called with it.
RenderDone(k) ==
    /\ batches[k].pc = "render"
    /\ batches' = [batches EXCEPT ![k].pc = "write", ![k].html = activeDoc]
    /\ UNCHANGED <<activeLeaf, files, activeDoc, mapFile, htmlFiles, wOpen, wWrite, lastResult, auxVars>>

\* The renderer threw.
RenderFail(k) ==
    /\ batches[k].pc = "render"
    /\ batches' = [batches EXCEPT ![k] = CatchError(@, "render error")]
    /\ UNCHANGED <<activeLeaf, files, activeDoc, mapFile, htmlFiles, wOpen, wWrite, lastResult, auxVars>>

\* The job's writeFile / appendFile resolved.
WriteDone(k) ==
    /\ batches[k].pc = "write"
    /\ batches[k].kind = "html" => htmlDir
    /\ IF batches[k].kind = "map"
       THEN /\ mapFile' = AppendFile(mapFile, Fragment(batches[k].html))
            /\ UNCHANGED htmlFiles
       ELSE /\ htmlFiles' = [htmlFiles EXCEPT
                                ![BaseName(batches[k].jobs[batches[k].i])] = batches[k].html]
            /\ UNCHANGED mapFile
    /\ batches' = [batches EXCEPT ![k] = JobSucceeded(@)]
    /\ UNCHANGED <<activeLeaf, files, activeDoc, wOpen, wWrite, lastResult, auxVars>>

\* The error fs.promises.writeFile rejects with: it does not create the
\* directory of the file, so without it the open fails with ENOENT; with it
\* the write may still fail on the device.
WriteError(b) ==
    IF b.kind = "html" /\ ~htmlDir THEN "ENOENT" ELSE "write error"

\* The job's writeFile / appendFile rejected.
WriteFail(k) ==
    /\ batches[k].pc = "write"
    /\ batches' = [batches EXCEPT ![k] = CatchError(@, WriteError(batches[k]))]
    /\ UNCHANGED <<activeLeaf, files, activeDoc, mapFile, htmlFiles, wOpen, wWrite, lastResult, auxVars>>

\* appendFile(outputFile, footer) resolved: executeJobs is over.
FooterDone(k) ==
    /\ batches[k].pc = "appendFooter"
    /\ mapFile' = AppendFile(mapFile, footer)
    /\ batches' = [batches EXCEPT ![k].pc = "done"]
    /\ UNCHANGED <<activeLeaf, files, activeDoc, htmlFiles, wOpen, wWrite, lastResult, auxVars>>

\* appendFile(outputFile, footer) rejected.
FooterFail(k) ==
    /\ batches[k].pc = "appendFooter"
    /\ batches' = [batches EXCEPT ![k] = Reject(@)]
    /\ UNCHANGED <<activeLeaf, files, activeDoc, mapFile, htmlFiles, wOpen, wWrite, lastResult, auxVars>>

BatchIds == 1..Len(batches)

Next ==
    \/ HtmlGate
    \/ HtmlExportAll
    \/ MapGate
    \/ MapExportAll
    \/ PreambleOpen
    \/ PreambleWrite
    \/ \E k \in BatchIds : OpenFileDone(k)
    \/ \E k \in BatchIds : OpenFileFail(k)
    \/ \E k \in BatchIds : RenderDone(k)
    \/ \E k \in BatchIds : RenderFail(k)
    \/ \E k \in BatchIds : WriteDone(k)
    \/ \E k \in BatchIds : WriteFail(k)
    \/ \E k \in BatchIds : FooterDone(k)
    \/ \E k \in BatchIds : FooterFail(k)

Spec == Init /\ [][Next]_vars

\* ------------------------------------------------------------ observations
\* A job is between its start and its completion.
Running(b) == b.pc \in {"openFile", "render", "write"}

\* executeJobs is over: it returned, or its promise rejected.
Over(b) == b.pc \in {"done", "rejected"}

Starts(b) == SelectSeq(b.notices, LAMBDA n : n.kind = "start")
Outcomes(b) == SelectSeq(b.notices, LAMBDA n : n.kind # "start")
DocsOf(ns) == [n \in 1..Len(ns) |-> ns[n].doc]

\* The documents of the jobs of b that showed a success notice, in order.
Succeeded(b) == DocsOf(SelectSeq(b.notices, LAMBDA n : n.kind = "success"))

\* What the destination holds after a map export whose jobs ds succeeded.
MapOf(ds) == <<mapHeader>> \o [n \in 1..Len(ds) |-> Fragment(ds[n])] \o <<footer>>

NoWritePending == wOpen = 0 /\ wWrite = 0

\* The batch went on from job b.i after showing the outcome notice o: the
\* next job has started, or the loop is over; executeJobs did not reject.
WentOn(b, c, o) ==
    /\ c.i = b.i + 1
    /\ IF b.i < Len(b.jobs)
       THEN /\ c.pc = "openFile"
            /\ c.notices = b.notices \o <<o, Notice("start", b.jobs[b.i + 1], "")>>
       ELSE /\ c.pc = IF b.kind = "map" THEN "appendFooter" ELSE "done"
            /\ c.notices = b.notices \o <<o>>

\* ------------------------------------------------------------------ claims

\* C1: in a batch export of either kind, when the renderer throws or the
\* write/append fails for a job, the error is caught inside the job, a
\* failure notice carrying the error's description is shown, and the batch
\* goes on to the next job (or to the end of the loop after the last job):
\* no step of a job that is rendering or writing ends in a rejection.
C1_FailureCaughtBatchGoesOn ==
    [][\A k \in BatchIds :
        LET b == batches[k]
            c == batches'[k]
        IN /\ RenderFail(k) =>
                WentOn(b, c, Notice("failure", b.jobs[b.i], "render error"))
           /\ WriteFail(k) =>
                WentOn(b, c, Notice("failure", b.jobs[b.i], "write error"))
           /\ (b.pc \in {"render", "write"} /\ c # b) =>
                /\ c.pc # "rejected"
                /\ c.i = b.i \/
                     \E o \in {Notice(kd, b.jobs[b.i], tx) :
                                 kd \in {"success", "failure"},
                                 tx \in {"", "render error", "write error"}} :
                        /\ o.kind = "failure" <=> o.text # ""
                        /\ WentOn(b, c, o)]_vars

\* A batch whose first job failed in the try block and whose second job
\* then ran to its success notice.
C1_Witness ==
    \E k \in BatchIds :
        /\ Len(batches[k].notices) = 4
        /\ batches[k].notices[2].kind = "failure"
        /\ batches[k].notices[3].kind = "start"
        /\ batches[k].notices[4].kind = "success"

\* C2: every per-job error stays inside its job, a failure of openFile
\* included: executeJobs never rejects because of a job (only the footer
\* append, which is past the last job, may reject it).
C2_JobErrorsIsolated ==
    \A k \in BatchIds :
        batches[k].pc = "rejected" => batches[k].i > Len(batches[k].jobs)

\* C3: within one batch the jobs run strictly one after another: the
\* notices of a batch alternate start, outcome, start, outcome, ... job by
\* job, so the outcome of job j (its write completed, or its failure was
\* reported) is there before job j+1 takes its first step, and only the
\* job the loop is at is ever between its start and its completion.
C3_JobsStrictlySequential ==
    \A k \in BatchIds :
        LET b == batches[k]
            ns == b.notices
        IN /\ \A n \in 1..Len(ns) :
                /\ (ns[n].kind = "start") <=> (n % 2 = 1)
                /\ ns[n].doc = b.jobs[(n + 1) \div 2]
           /\ Running(b) => Len(ns) = 2 * b.i - 1
           /\ b.pc \in {"appendFooter", "done"} => Len(ns) = 2 * Len(b.jobs)
           /\ Len(ns) \in {2 * b.i - 2, 2 * b.i - 1}

\* The second job of a batch has started after the first one succeeded.
C3_Witness ==
    \E k \in BatchIds :
        /\ batches[k].i = 2
        /\ batches[k].pc = "render"
        /\ batches[k].notices[2].kind = "success"

\* C4: at most one export job is between its start and its completion,
\* whatever the sequence of command invocations.
C4_AtMostOneJobRunning ==
    Cardinality({k \in BatchIds : Running(batches[k])}) <= 1

\* C5: while the renderer of a job runs the active view shows the job's
\* own document, and the html it returns is the rendering of that document.
C5_RendererReadsOwnDocument ==
    \A k \in BatchIds :
        LET b == batches[k]
        IN /\ b.pc = "render" => activeDoc = b.jobs[b.i]
           /\ b.pc = "write" => b.html = b.jobs[b.i]

\* C6: after a map export of d1..dN in which every job succeeded (the only
\* batch started, nothing left in flight), the destination holds exactly
\* the preamble, the fragments of d1..dN in order, and the postamble.
C6_MapHoldsAllFragments ==
    \A k \in BatchIds :
        LET b == batches[k]
        IN (/\ Len(batches) = 1
            /\ b.kind = "map"
            /\ b.pc = "done"
            /\ Succeeded(b) = b.jobs
            /\ NoWritePending) => mapFile = MapOf(b.jobs)

\* C7: in map export the preamble write has completed before any job's
\* append and before the postamble append begins, for every N >= 0.
C7_PreambleBeforeAppends ==
    \A k \in BatchIds :
        (batches[k].kind = "map" /\ batches[k].pc \in {"write", "appendFooter"})
            => NoWritePending

\* C8: whenever a map batch completes (the only batch started, nothing left
\* in flight), whether its jobs succeeded or failed, the destination is the
\* preamble, the fragments of the jobs that succeeded in order, and the
\* postamble.
C8_PostambleAfterCompletedBatch ==
    \A k \in BatchIds :
        LET b == batches[k]
        IN (/\ Len(batches) = 1
            /\ b.kind = "map"
            /\ b.pc = "done"
            /\ NoWritePending)
           => /\ Len(mapFile) = Len(Succeeded(b)) + 2
              /\ mapFile[1] = mapHeader
              /\ mapFile[Len(mapFile)] = footer
              /\ \A n \in 1..Len(Succeeded(b)) :
                    mapFile[n + 1] = Fragment(Succeeded(b)[n])

\* C9: every job of a batch shows exactly one start notice and then exactly
\* one outcome notice, so a batch that is over has shown 2N notices.
C9_TwoNoticesPerJob ==
    \A k \in BatchIds :
        Over(batches[k]) =>
            /\ Len(batches[k].notices) = 2 * Len(batches[k].jobs)
            /\ Len(Starts(batches[k])) = Len(Outcomes(batches[k]))

\* C10: a batch over N enumerated documents has exactly N jobs, job i for
\* the i-th document, and the jobs are started in that order: the documents
\* of the start notices are the first documents of the enumeration, all N
\* of them once the loop is over.
C10_JobsFollowEnumeration ==
    \A k \in BatchIds :
        LET b == batches[k]
            st == DocsOf(Starts(b))
        IN /\ Len(b.jobs) = Len(files)
           /\ \A j \in 1..Len(files) : b.jobs[j] = files[j]
           /\ Len(st) <= Len(files)
           /\ st = SubSeq(files, 1, Len(st))
           /\ Running(b) => Len(st) = b.i
           /\ b.pc \in {"appendFooter", "done"} => st = files

\* A finished batch over two documents.
C10_Witness ==
    \E k \in BatchIds :
        /\ batches[k].pc = "done"
        /\ Len(batches[k].jobs) = 2
        /\ Len(Starts(batches[k])) = 2

\* ------------------------------------------------------------------- texts
\* A string of the program is a sequence of its characters.
\* The vault-relative path of each file the active view may show: the
\* markdown files and two files that are not markdown.
OtherFiles == {"pic.png", "cmd"}

PathText(d) ==
    CASE d = "notes/a.md" -> <<"n", "o", "t", "e", "s", "/", "a", ".", "m", "d">>
      [] d = "other/a.md" -> <<"o", "t", "h", "e", "r", "/", "a", ".", "m", "d">>
      [] d = "b.md" -> <<"b", ".", "m", "d">>
      [] d = "pic.png" -> <<"p", "i", "c", ".", "p", "n", "g">>
      [] d = "cmd" -> <<"c", "m", "d">>
      [] OTHER -> <<>>

\* String.prototype.endsWith
EndsWith(text, suffix) ==
    /\ Len(suffix) <= Len(text)
    /\ SubSeq(text, Len(text) - Len(suffix) + 1, Len(text)) = suffix

\* text with every character `from` replaced by `to`.
ReplaceChar(text, from, to) ==
    [n \in 1..Len(text) |-> IF text[n] = from THEN to ELSE text[n]]

\* FileSystemAdapter.getBasePath(): the vault's folder.
BasePath == IF platform = "win32" THEN <<"C", ":", "\\", "v">> ELSE <<"/", "v">>

\* FileSystemAdapter.getFullPath(path): the path under the vault's folder,
\* with the platform's separator.
GetFullPath(d) ==
    IF platform = "win32"
    THEN BasePath \o <<"\\">> \o ReplaceChar(PathText(d), "/", "\\")
    ELSE BasePath \o <<"/">> \o PathText(d)

\* ------------------------------------------------------------ capabilities
\* The output formats and their static properties (./pandoc).
OutputFormats == {"html", "docx", "pdf"}
needsPandoc(format) == format # "html"
needsLaTeX(format) == format = "pdf"

\* The supported input extensions (./pandoc), written as line 160 writes an
\* extension: without the dot.
inputExtensions == {<<"m", "d">>, <<"t", "e", "x">>}

\* The text of no file: getCurrentFile() returning null.
NoFile == <<>>

\* getCurrentFile(): the full path of the active file; null without an
\* active file or when the adapter is not a FileSystemAdapter.
getCurrentFile ==
    IF activeDoc = NoDoc THEN NoFile
    ELSE IF adapterFs THEN GetFullPath(activeDoc)
    ELSE NoFile

\* As currentFileCanBeExported, without the LaTeX check of line 138.
currentFileCanBeExportedNoLaTeX(format) ==
    IF needsPandoc(format) /\ Falsy(features.pandoc) THEN FALSE
    ELSE LET file == getCurrentFile
         IN IF file = NoFile THEN FALSE
            ELSE \E ext \in inputExtensions : EndsWith(file, ext)

currentFileCanBeExported(format) ==
    IF needsPandoc(format) /\ Falsy(features.pandoc) THEN FALSE
    ELSE IF needsLaTeX(format) /\ Falsy(features.pdflatex) THEN FALSE
    ELSE LET file == getCurrentFile
         IN IF file = NoFile THEN FALSE
            ELSE \E ext \in inputExtensions : EndsWith(file, ext)

\* As OrElse, with the operands the other way round.
OrElseSwapped(a, b) == IF Falsy(b) THEN a ELSE b

\* a || b of the source, for strings and undefined.
OrElse(a, b) == IF Falsy(a) THEN b ELSE a

\* createBinaryMap from its second statement on: the configured pdflatex
\* path is taken at once, otherwise lookpath('pdflatex') is awaited.
AfterPandoc(f) ==
    IF Falsy(settings.pdflatex)
    THEN [features |-> f, cbm |-> "lookpath pdflatex"]
    ELSE [features |-> [f EXCEPT !.pdflatex = settings.pdflatex], cbm |-> "done"]

\* onload up to the first await of createBinaryMap (which onload does not
\* await, so the commands are registered at once): the configured pandoc
\* path is taken at once, otherwise lookpath('pandoc') is awaited.
Onload ==
    /\ cbm = "constructed"
    /\ IF Falsy(settings.pandoc)
       THEN /\ cbm' = "lookpath pandoc"
            /\ UNCHANGED features
       ELSE LET r == AfterPandoc([features EXCEPT !.pandoc = settings.pandoc])
            IN /\ features' = r.features
               /\ cbm' = r.cbm
    /\ UNCHANGED <<batchVars, htmlDir, settings, installed, adapterFs, exportable, platform, outputs>>

\* lookpath('pandoc') resolved.
LookpathPandoc ==
    /\ cbm = "lookpath pandoc"
    /\ LET r == AfterPandoc([features EXCEPT
                               !.pandoc = OrElse(settings.pandoc, installed.pandoc)])
       IN /\ features' = r.features
          /\ cbm' = r.cbm
    /\ UNCHANGED <<batchVars, htmlDir, settings, installed, adapterFs, exportable, platform, outputs>>

\* lookpath('pdflatex') resolved.
LookpathPdflatex ==
    /\ cbm = "lookpath pdflatex"
    /\ features' = [features EXCEPT
                      !.pdflatex = OrElse(settings.pdflatex, installed.pdflatex)]
    /\ cbm' = "done"
    /\ UNCHANGED <<batchVars, htmlDir, settings, installed, adapterFs, exportable, platform, outputs>>

\* A call of currentFileCanBeExported(format).
CanExport ==
    /\ cbm # "constructed"
    /\ \E format \in OutputFormats :
          exportable' = <<format, currentFileCanBeExported(format)>>
    /\ UNCHANGED <<batchVars, htmlDir, settings, installed, features, cbm, adapterFs, platform, outputs>>

\* The paths a user may have configured, and those lookpath may find.
ConfiguredPaths == {Undefined, "", "/opt/tool"}
FoundPaths == {Undefined, "/usr/bin/tool"}

\* The plugin constructed (features = {}), settings loaded, in any
\* environment; no command has been invoked.
CapInit ==
    /\ activeLeaf = TRUE
    /\ files = <<>>
    /\ activeDoc \in {NoDoc} \cup AllDocs \cup OtherFiles
    /\ batches = <<>>
    /\ mapFile = <<Prior>>
    /\ htmlFiles = [n \in OutputNames |-> NoDoc]
    /\ wOpen = 0
    /\ wWrite = 0
    /\ lastResult = "none"
    /\ htmlDir = TRUE
    /\ settings \in [pandoc : ConfiguredPaths, pdflatex : ConfiguredPaths, outputFolder : {""}]
    /\ installed \in [pandoc : FoundPaths, pdflatex : FoundPaths]
    /\ features = NoFeatures
    /\ cbm = "constructed"
    /\ adapterFs \in BOOLEAN
    /\ exportable = <<>>
    /\ platform \in {"posix", "win32"}
    /\ outputs = {}

CapNext ==
    \/ Onload
    \/ LookpathPandoc
    \/ LookpathPdflatex
    \/ CanExport

SpecCapabilities == CapInit /\ [][CapNext]_vars

\* What createBinaryMap leaves in features once it has finished.
FinishedFeatures ==
    [pandoc |-> OrElse(settings.pandoc, installed.pandoc),
     pdflatex |-> OrElse(settings.pdflatex, installed.pdflatex)]

\* The active file's path ends with a supported input extension.
SupportedInput ==
    /\ activeDoc # NoDoc
    /\ \E ext \in inputExtensions : EndsWith(PathText(activeDoc), ext)

\* The capability map has what the format needs.
ToolsPresent(format, map) ==
    /\ needsPandoc(format) => ~Falsy(map.pandoc)
    /\ needsLaTeX(format) => ~Falsy(map.pdflatex)

\* C11 as stated: currentFileCanBeExported(format) is true if and only if
\* the capability map has the tools the format needs, an active document
\* exists and its path ends with a supported input extension.
C11_CanExportIff ==
    \A format \in OutputFormats :
        currentFileCanBeExported(format) <=>
            (ToolsPresent(format, features) /\ SupportedInput)

\* C11 amended: ... if and only if the capability map has the tools the
\* format needs, an active document exists, the vault adapter is a
\* FileSystemAdapter, and the document's path ends with a supported input
\* extension; so it is false for every format that needs a missing tool and
\* for every format when the path has no supported extension.
C11_CanExportIffOnFileSystem ==
    \A format \in OutputFormats :
        /\ currentFileCanBeExported(format) <=>
              (ToolsPresent(format, features) /\ adapterFs /\ SupportedInput)
        /\ ~ToolsPresent(format, features) => ~currentFileCanBeExported(format)
        /\ ~SupportedInput => ~currentFileCanBeExported(format)

\* A call for pdf that returned true, with both tools in the map.
C11_Witness ==
    /\ exportable = <<"pdf", TRUE>>
    /\ ~Falsy(features.pdflatex)
    /\ SupportedInput

\* C12: createBinaryMap resolves each tool to the configured path when that
\* is set and non-empty, otherwise to what the PATH lookup found, otherwise
\* leaves it unset; it never ends in an error. Before a tool is resolved its
\* entry is unset.
C12_ConfiguredThenPathThenUnset ==
    /\ cbm \in {"constructed", "lookpath pandoc", "lookpath pdflatex", "done"}
    /\ \A tool \in {"pandoc", "pdflatex"} :
          LET resolved == \/ cbm = "done"
                          \/ tool = "pandoc" /\ cbm = "lookpath pdflatex"
                          \/ ~Falsy(settings[tool]) /\ cbm # "constructed"
                                /\ (tool = "pdflatex" => cbm # "lookpath pandoc")
          IN features[tool] =
                IF ~resolved THEN Undefined
                ELSE IF settings[tool] \notin {Undefined, ""} THEN settings[tool]
                ELSE installed[tool]

\* Finished, with pandoc both configured and on the PATH (the configured
\* path won) and pdflatex neither configured nor found (left unset).
C12_Witness ==
    /\ cbm = "done"
    /\ settings.pandoc = "/opt/tool"
    /\ installed.pandoc = "/usr/bin/tool"
    /\ features.pandoc = "/opt/tool"
    /\ settings.pdflatex = ""
    /\ features.pdflatex = Undefined

\* C20: while createBinaryMap is in flight, currentFileCanBeExported is
\* never true for a format that needs a tool the finished map lacks.
C20_ConservativeWhileDetecting ==
    \A format \in OutputFormats :
        currentFileCanBeExported(format) => ToolsPresent(format, FinishedFeatures)

\* A call that returned true for docx while lookpath('pdflatex') was
\* still awaited.
C20_Witness ==
    /\ cbm = "lookpath pdflatex"
    /\ exportable = <<"docx", TRUE>>

\* ------------------------------------------------------------ output paths
\* The output folders a user may have configured, and their texts.
OutputFolders == {Undefined, "", "out", "/out/site", "C:\\out"}

FolderText(f) ==
    CASE f = "out" -> <<"o", "u", "t">>
      [] f = "/out/site" -> <<"/", "o", "u", "t", "/", "s", "i", "t", "e">>
      [] f = "C:\\out" -> <<"C", ":", "\\", "o", "u", "t">>
      [] OTHER -> <<>>

\* The characters the platform's path module takes as separators, and the
\* one it writes.
Separators == IF platform = "win32" THEN {"/", "\\"} ELSE {"/"}
Sep == IF platform = "win32" THEN "\\" ELSE "/"

\* Position of the last character of text that is in chars; 0 without one.
LastIndexOf(text, chars) ==
    LET at == {n \in 1..Len(text) : text[n] \in chars}
    IN IF at = {} THEN 0 ELSE CHOOSE n \in at : \A m \in at : m <= n

\* replaceFileExtension(file, ext) of ./global: the text up to the last dot
\* (all of it without a dot), a dot and the new extension.
replaceFileExtension(file, ext) ==
    LET pos == LastIndexOf(file, {"."})
    IN SubSeq(file, 1, IF pos = 0 THEN Len(file) ELSE pos - 1) \o <<".">> \o ext

\* path.basename: what follows the last separator.
basename(file) == SubSeq(file, LastIndexOf(file, Separators) + 1, Len(file))

\* path.normalize for paths without "." and ".." segments: every separator
\* written as the platform's, runs of separators collapsed.
RECURSIVE normalize(_)
normalize(text) ==
    IF text = <<>> THEN <<>>
    ELSE LET c == IF Head(text) \in Separators THEN Sep ELSE Head(text)
             rest == normalize(Tail(text))
         IN IF c = Sep /\ rest # <<>> /\ Head(rest) = Sep THEN rest
            ELSE <<c>> \o rest

\* path.join(a, b) for non-empty a and b.
join(a, b) == normalize(a \o <<Sep>> \o b)

htmlText == <<"h", "t", "m", "l">>
htmlContentFolder == htmlText
fileName == <<"m", "a", "p", ".">> \o htmlText

\* The text `adapter.getBasePath()` of line 81, which is not interpolated.
basePathLiteral ==
    <<"a", "d", "a", "p", "t", "e", "r", ".", "g", "e", "t",
      "B", "a", "s", "e", "P", "a", "t", "h", "(", ")">>

\* outputFile of startHtmlExport.
HtmlOutputFile(inputFile) ==
    LET outputFile == replaceFileExtension(inputFile, htmlText)
    IN IF ~Falsy(settings.outputFolder)
       THEN join(FolderText(settings.outputFolder) \o <<"\\">> \o htmlContentFolder,
                 basename(outputFile))
       ELSE join(htmlContentFolder, basename(outputFile))

\* outputFile of the map-exportall command.
MapOutputFile ==
    IF ~Falsy(settings.outputFolder)
    THEN FolderText(settings.outputFolder) \o <<"\\">> \o fileName
    ELSE basePathLiteral \o <<"\\">> \o fileName

\* startHtmlExport computes the output path of document d.
ComputeHtmlOutput ==
    /\ \E d \in AllDocs :
          outputs' = outputs \cup
              {[kind |-> "html", doc |-> d, path |-> HtmlOutputFile(GetFullPath(d))]}
    /\ outputs' # outputs
    /\ UNCHANGED <<batchVars, htmlDir, settings, installed, features, cbm, adapterFs, exportable, platform>>

\* The map-exportall command computes its destination.
ComputeMapOutput ==
    /\ outputs' = outputs \cup {[kind |-> "map", doc |-> NoDoc, path |-> MapOutputFile]}
    /\ outputs' # outputs
    /\ UNCHANGED <<batchVars, htmlDir, settings, installed, features, cbm, adapterFs, exportable, platform>>

\* Any platform and any configured output folder; no path computed yet.
PathInit ==
    /\ activeLeaf = TRUE
    /\ files = <<>>
    /\ activeDoc = NoDoc
    /\ batches = <<>>
    /\ mapFile = <<Prior>>
    /\ htmlFiles = [n \in OutputNames |-> NoDoc]
    /\ wOpen = 0
    /\ wWrite = 0
    /\ lastResult = "none"
    /\ htmlDir = TRUE
    /\ settings \in [pandoc : {Undefined}, pdflatex : {Undefined}, outputFolder : OutputFolders]
    /\ installed = NoFeatures
    /\ features = NoFeatures
    /\ cbm = "constructed"
    /\ adapterFs = TRUE
    /\ exportable = <<>>
    /\ platform \in {"posix", "win32"}
    /\ outputs = {}

PathNext ==
    \/ ComputeHtmlOutput
    \/ ComputeMapOutput

SpecPaths == PathInit /\ [][PathNext]_vars

\* The components of a path: the texts between the platform's separators.
RECURSIVE Split(_, _)
Split(text, cur) ==
    IF text = <<>> THEN (IF cur = <<>> THEN <<>> ELSE <<cur>>)
    ELSE IF Head(text) \in Separators
         THEN (IF cur = <<>> THEN <<>> ELSE <<cur>>) \o Split(Tail(text), <<>>)
         ELSE Split(Tail(text), Append(cur, Head(text)))

Components(text) == Split(text, <<>>)

\* The text of the output file name of each document (see BaseName).
NameText(d) ==
    IF BaseName(d) = "a.html" THEN <<"a", ".">> \o htmlText ELSE <<"b", ".">> \o htmlText

\* The configured output folder, as a list of components; none: empty.
FolderComponents ==
    IF Falsy(settings.outputFolder) THEN <<>>
    ELSE Components(FolderText(settings.outputFolder))

\* C13: the html output path is the input's base name with the extension
\* replaced by html, in the folder html of the configured output folder, or
\* in the folder html (relative) when none is configured; for notes/a.md
\* and no output folder it is html/a.html.
C13_HtmlOutputUnderFolder ==
    \A o \in outputs :
        o.kind = "html" =>
            /\ Components(o.path) = FolderComponents \o <<htmlText, NameText(o.doc)>>
            /\ (platform = "posix" /\ Falsy(settings.outputFolder) /\ o.doc = "notes/a.md")
                  => o.path = htmlText \o <<"/", "a", ".">> \o htmlText

\* C14: the map destination is the file map.html in the configured output
\* folder, or in the vault's folder when none is configured.
C14_MapOutputUnderFolderOrVault ==
    \A o \in outputs :
        o.kind = "map" =>
            Components(o.path) =
                (IF Falsy(settings.outputFolder) THEN Components(BasePath)
                 ELSE FolderComponents) \o <<fileName>>

\* ------------------------------------------------- the commands in the vault
\* C15: a command is available, and a batch starts, only when the vault has
\* at least one document and an active view is present.
C15_GateNeedsDocumentAndView ==
    /\ lastResult = "true" => (activeLeaf /\ Len(files) >= 1)
    /\ batches # <<>> => (activeLeaf /\ Len(files) >= 1)

\* C16: the jobs of an html batch write to pairwise different output files:
\* after a fully successful batch of N documents (the only batch started)
\* there are N output files, one holding each document's rendering.
C16_OneOutputFilePerDocument ==
    \A k \in BatchIds :
        LET b == batches[k]
        IN (/\ Len(batches) = 1
            /\ b.kind = "html"
            /\ b.pc = "done"
            /\ Succeeded(b) = b.jobs)
           => /\ \A i, j \in 1..Len(b.jobs) :
                    BaseName(b.jobs[i]) = BaseName(b.jobs[j]) => i = j
              /\ \A j \in 1..Len(b.jobs) : htmlFiles[BaseName(b.jobs[j])] = b.jobs[j]
              /\ Cardinality({n \in OutputNames : htmlFiles[n] # NoDoc}) = Len(b.jobs)

\* C19: evaluating a command's gate (checking = true) starts no job and no
\* write, and leaves the destination files and the active document alone.
C19_GateHasNoSideEffects ==
    [][(HtmlGate \/ MapGate) =>
          UNCHANGED <<activeDoc, batches, mapFile, htmlFiles, wOpen, wWrite>>]_vars

\* ------------------------------------------------------ runs in succession
\* No executeJobs is in progress.
AllOver == \A k \in BatchIds : Over(batches[k])

\* As Init, with the directory of the html output files present or not.
SeqInit ==
    /\ activeLeaf \in BOOLEAN
    /\ files \in Listings
    /\ activeDoc = NoDoc
    /\ batches = <<>>
    /\ mapFile = <<Prior>>
    /\ htmlFiles = [n \in OutputNames |-> NoDoc]
    /\ wOpen = 0
    /\ wWrite = 0
    /\ lastResult = "none"
    /\ htmlDir \in BOOLEAN
    /\ AuxIdle

\* As Next, with a command invoked only once the batch before it is over.
SeqNext ==
    \/ HtmlGate
    \/ AllOver /\ HtmlExportAll
    \/ MapGate
    \/ AllOver /\ MapExportAll
    \/ PreambleOpen
    \/ PreambleWrite
    \/ \E k \in BatchIds : OpenFileDone(k)
    \/ \E k \in BatchIds : OpenFileFail(k)
    \/ \E k \in BatchIds : RenderDone(k)
    \/ \E k \in BatchIds : RenderFail(k)
    \/ \E k \in BatchIds : WriteDone(k)
    \/ \E k \in BatchIds : WriteFail(k)
    \/ \E k \in BatchIds : FooterDone(k)
    \/ \E k \in BatchIds : FooterFail(k)

SpecSequential == SeqInit /\ [][SeqNext]_vars

HtmlBatches == {k \in BatchIds : batches[k].kind = "html"}

\* The html output files after the documents ds were written one after
\* another to files that held nothing: a.html holds the last of notes/a.md
\* and other/a.md written, b.html holds b.md.
RECURSIVE HtmlFilesAfter(_)
HtmlFilesAfter(ds) ==
    IF ds = <<>> THEN [n \in OutputNames |-> NoDoc]
    ELSE LET d == ds[Len(ds)]
         IN [HtmlFilesAfter(SubSeq(ds, 1, Len(ds) - 1)) EXCEPT
                ![IF d = "b.md" THEN "b.html" ELSE "a.html"] = d]

\* C17: with a deterministic renderer (every run has the same outcome for
\* every job) and the vault and settings unchanged, html batch exports run
\* to completion one after another leave the same output files with the
\* same contents as the first of them: the files written by the jobs that
\* succeeded, each holding the rendering of the last such job.
C17_SecondRunLeavesSameFiles ==
    (/\ HtmlBatches # {}
     /\ \A k \in HtmlBatches : batches[k].pc = "done"
     /\ \A k, l \in HtmlBatches : batches[k].notices = batches[l].notices)
    => \A k \in HtmlBatches : htmlFiles = HtmlFilesAfter(Succeeded(batches[k]))

\* Two html batches over two documents, run one after the other, every job
\* successful.
C17_Witness ==
    /\ Len(batches) = 2
    /\ \A k \in BatchIds :
          /\ batches[k].kind = "html"
          /\ batches[k].pc = "done"
          /\ Len(batches[k].jobs) = 2
          /\ Succeeded(batches[k]) = batches[k].jobs

\* C18: the write step creates missing directories: no html job whose
\* render succeeded fails because the directory of its output file does not
\* exist.
C18_WriteCreatesDirectories ==
    \A k \in BatchIds :
        \A n \in 1..Len(batches[k].notices) : batches[k].notices[n].text # "ENOENT"

====
